---- MODULE Spec2Model ----
(***************************************************************************)
(* A model of the run orchestration of fastapi-assistant                   *)
(* (src/assistant.py): Assistant_call.newthread_and_run, the background    *)
(* task run_tasks_sequentially, _process_run with its tool-call loop,      *)
(* _process_tool_calls / _process_tool_call, and getfullresponse with      *)
(* _remove_annotations.  The remote assistant service (threads, messages,  *)
(* runs) is the environment: it moves a run through its statuses on its    *)
(* own, and any call made to it may fail.                                  *)
(***************************************************************************)
EXTENDS Integers, Sequences, FiniteSets, TLC

VARIABLES
    when_done,      \* TRUE when newthread_and_run got a completion hook
    tools,          \* the function names getattr(tools, name) resolves
    pc,             \* where the invocation (and then its task) stands
    ret,            \* what newthread_and_run gave back to its caller
    thread,         \* the thread get_thread created
    messages,       \* the remote thread's messages, newest first
    rstatus,        \* the remote run's status
    rlast_error,    \* the remote run's last_error
    rcalls,         \* the remote run's pending tool calls
    rround,         \* how many tool-call rounds the remote has asked for
    run,            \* the Run object the orchestration holds
    tool_outputs,   \* the list _process_tool_calls collects
    callpc,         \* per tool call of the batch: pending, awaiting, done
    behaved,        \* per tool call of the batch: what its coroutine met
    result,         \* what _process_run returned
    hookCalls,      \* how often the completion hook has been invoked
    hookArg,        \* the argument of its last invocation
    spins,          \* loop iterations of _process_run that changed nothing
    raisedBy,       \* what ended the invocation with an exception
    remove_annotations, \* the flag of the last getfullresponse call
    response,       \* what the last getfullresponse call returned
    dispatches,     \* how often _process_run has called _process_tool_calls
    submissions,    \* how many batches of tool outputs have been submitted
    default_metadata, \* the dict that is newthread_and_run's default metadata
    call,           \* the arguments and locals of the invocation under way
    threads,        \* the threads the remote holds, in the order of creation
    nummer_thread_list, \* twilio_api: phone number to thread id
    requests        \* twilio_api: the /sms requests and their tasks

vars == <<when_done, tools, pc, ret, thread, messages, rstatus, rlast_error,
          rcalls, rround, run, tool_outputs, callpc, behaved, result,
          hookCalls, hookArg, spins, raisedBy, remove_annotations, response,
          dispatches, submissions, default_metadata, call, threads,
          nummer_thread_list, requests>>

(* groups of variables, for UNCHANGED *)
invocation == <<when_done, tools>>
remoteRun == <<rstatus, rlast_error, rcalls, rround>>
dispatch == <<tool_outputs, callpc, behaved>>
hook == <<hookCalls, hookArg>>
reading == <<remove_annotations, response>>
history == <<dispatches, submissions>>
calls == <<default_metadata, call, threads>>
twilio == <<nummer_thread_list, requests>>
service == <<calls, twilio>>

----------------------------------------------------------------------------
(* Bounds of the model *)

MaxRounds == 2
MaxBatch == 2
MaxSpins == 2

----------------------------------------------------------------------------
(* Python values *)

None == [type |-> "NoneType"]
Str(s) == [type |-> "str", value |-> s]
IsStr(v) == v.type = "str"

ThreadId == "thread_1"

(* run statuses *)
Terminal == {"completed", "expired", "failed", "cancelled", "incomplete"}
(* a poll that also comes back while the run is in progress *)
PollStopsEarly == Terminal \cup {"requires_action", "in_progress"}

(* the statuses at which the client's poll comes back *)
PollStops == Terminal \cup {"requires_action"}
NonTerminal == {"queued", "in_progress", "cancelling", "requires_action"}

NoRun == [status |-> "none", last_error |-> None, tool_calls |-> <<>>]
NoRet == [kind |-> "pending"]
Raised == [kind |-> "raised"]
NoResult == [kind |-> "pending"]
NoThread == [id |-> "none"]

(* a dict with strings as keys and values: its items, one per key *)
EmptyDict == {}
DictKeys(d) == { item.key : item \in d }
DictGet(d, k) == (CHOOSE item \in d : item.key = k).value
DictSet(d, k, v) == { item \in d : item.key # k } \cup { [key |-> k, value |-> v] }

(* no invocation of newthread_and_run is under way *)
NoCall ==
    [n |-> 0, op |-> "none", assistant_id |-> "None", assistant_name |-> "None",
     thread_id |-> "None", metadata_is |-> "default", metadata |-> EmptyDict,
     files |-> <<>>, vision_files |-> <<>>, attachment_files |-> <<>>,
     thread |-> "None", task |-> FALSE, threads_at_entry |-> <<>>,
     when_done |-> "None"]

----------------------------------------------------------------------------
(* The tools module (src/tools.py) and the tool calls the remote asks for *)

ToolsModule == {"webscrape", "company_research", "google_search"}
NoTools == {}
FunctionNames == ToolsModule \cup {"nonexistent_fn"}

(* tool_call.function.arguments: a JSON document written by the remote     *)
(* model, which json.loads accepts or not.                                 *)
ArgumentStrings == {"{}", "{"}
JsonLoadsOk(arguments) == arguments = "{}"
JsonDecodeError ==
    [class |-> "JSONDecodeError",
     message |-> "Expecting property name enclosed in double quotes: line 1 column 2 (char 1)"]

(* What awaiting a tool function can do: return a value or raise. *)
Returns(v) == [kind |-> "return", value |-> v]
Raises(c, m) == [kind |-> "raise", class |-> c, message |-> m]
NotFound == [kind |-> "not_found"]
NotYet == [kind |-> "not_yet"]

(* webscrape catches what it meets and returns a text (lines 58-75). *)
webscrape ==
    { Returns(Str("The provided url is not valid")) }

(* company_research validates its arguments outside any try (line 90). *)
company_research ==
    { Raises("ValidationError", "1 validation error for company_research_parameters"),
      Returns(Str("research")) }

(* google_search returns None when the search raises (lines 113-116). *)
google_search ==
    { Returns(None),
      Returns(Str("No results found")) }

ToolBehaviours(name) ==
    CASE name = "webscrape" -> webscrape
      [] name = "company_research" -> company_research
      [] name = "google_search" -> google_search
      [] OTHER -> {}

ExceptionClasses == {"JSONDecodeError", "ValidationError"}

(* The remote's tool calls: ids are unique per run. *)
ToolCall(r, k, name, arguments) ==
    [id |-> <<r, k>>, name |-> name, arguments |-> arguments]

Batches(r) ==
    UNION { { [k \in 1..n |-> ToolCall(r, k, f[k], a[k])] :
                f \in [1..n -> FunctionNames], a \in [1..n -> ArgumentStrings] }
            : n \in 1..MaxBatch }

----------------------------------------------------------------------------
(* _process_tool_call *)

(* getattr(tools, function_name), None when it raises (lines 337-342) *)
to_run(tls, function_name) ==
    IF function_name \in tls THEN function_name ELSE "None"

NotSupported(function_name) ==
    Str("Function " \o function_name \o " not supported")

(* a narrower handler, except json.JSONDecodeError *)
ExceptJsonErrorOnly(class) == class = "JSONDecodeError"

(* except Exception (line 347): every exception the try block can see *)
ExceptException(class) == class \in ExceptionClasses

(* result = str(e) (line 348) *)
ExceptResult(e) == Str(e.message)

(* the append moved into the try block: skipped when the block raises *)
AppendOutputInsideTry(outs, tool_call, res, raised) ==
    IF raised THEN outs
    ELSE Append(outs, [tool_call_id |-> tool_call.id, output |-> res])

(* tool_outputs.append(...) after the try statement (lines 350-353) *)
AppendOutput(outs, tool_call, res, raised) ==
    Append(outs, [tool_call_id |-> tool_call.id, output |-> res])

----------------------------------------------------------------------------
(* getfullresponse and _remove_annotations *)

(* str.replace(old, ''): the leftmost non-overlapping occurrences go *)
RECURSIVE ReplaceFrom(_, _, _)
ReplaceFrom(s, old, i) ==
    IF i > Len(s) THEN ""
    ELSE IF i + Len(old) - 1 <= Len(s) /\ SubSeq(s, i, i + Len(old) - 1) = old
         THEN ReplaceFrom(s, old, i + Len(old))
         ELSE SubSeq(s, i, i) \o ReplaceFrom(s, old, i + 1)

Replace(s, old) == IF old = "" THEN s ELSE ReplaceFrom(s, old, 1)

(* for annotation in annotations: value = value.replace(annotation.text, '') *)
RECURSIVE RemoveFrom(_, _, _)
RemoveFrom(value, annotations, i) ==
    IF i > Len(annotations) THEN value
    ELSE RemoveFrom(Replace(value, annotations[i].text), annotations, i + 1)

remove_annotations_of(text) == RemoveFrom(text.value, text.annotations, 1)

(* if t.type == 'text' *)
IsTextSegment(t) == t.type = "text"

(* if m.role == 'assistant' *)
IsAssistantMessage(m) == m.role = "assistant"

SegmentText(t, remove) ==
    IF remove THEN remove_annotations_of(t.text) ELSE t.text.value

RECURSIVE ContentText(_, _, _)
ContentText(content, remove, i) ==
    IF i > Len(content) THEN ""
    ELSE (IF IsTextSegment(content[i]) THEN SegmentText(content[i], remove) ELSE "")
         \o ContentText(content, remove, i + 1)

(* the messages taken in the order of the list, newest first *)
RECURSIVE ForwardFrom(_, _, _)
ForwardFrom(data, remove, i) ==
    IF i > Len(data) THEN ""
    ELSE (IF IsAssistantMessage(data[i]) THEN ContentText(data[i].content, remove, 1) ELSE "")
         \o ForwardFrom(data, remove, i + 1)

getfullresponseUnreversed(data, remove) == ForwardFrom(data, remove, 1)

(* for m in reversed(messages.data): data[i], i from the last to the first *)
RECURSIVE ReversedFrom(_, _, _)
ReversedFrom(data, remove, i) ==
    IF i < 1 THEN ""
    ELSE (IF IsAssistantMessage(data[i]) THEN ContentText(data[i].content, remove, 1) ELSE "")
         \o ReversedFrom(data, remove, i - 1)

getfullresponse(data, remove) == ReversedFrom(data, remove, Len(data))

----------------------------------------------------------------------------
(* Messages of the thread *)

TextSegment(value, annotations) ==
    [type |-> "text", text |-> [value |-> value, annotations |-> annotations]]
ImageSegment == [type |-> "image_file"]
Annotation(text, start_index, end_index) ==
    [text |-> text, start_index |-> start_index, end_index |-> end_index]

(* A message of the thread; created_at orders the thread's messages, and  *)
(* messages.list gives them newest first.                                  *)
Message(role, content, created_at) ==
    [role |-> role, content |-> content, created_at |-> created_at]

UserMessage(content, created_at) ==
    Message("user", <<TextSegment(content, <<>>)>>, created_at)

(* What the assistant answers when its run completes. *)
AssistantReplies(created_at) ==
    { Message("assistant", <<TextSegment("a joke", <<>>)>>, created_at),
      Message("assistant",
              <<TextSegment("see [1].", <<Annotation("[1]", 4, 7)>>)>>, created_at) }

----------------------------------------------------------------------------
(* The state after construction: one invocation of newthread_and_run is    *)
(* about to start, with or without a hook and with or without tools.       *)

Idle ==
    /\ ret = NoRet
    /\ thread = NoThread
    /\ messages = <<>>
    /\ rstatus = "none"
    /\ rlast_error = None
    /\ rcalls = <<>>
    /\ rround = 0
    /\ run = NoRun
    /\ tool_outputs = <<>>
    /\ callpc = <<>>
    /\ behaved = <<>>
    /\ result = NoResult
    /\ hookCalls = 0
    /\ hookArg = None
    /\ spins = 0
    /\ raisedBy = "none"
    /\ remove_annotations = TRUE
    /\ response = None
    /\ dispatches = 0
    /\ submissions = 0
    /\ default_metadata = EmptyDict
    /\ call = NoCall
    /\ threads = <<>>
    /\ nummer_thread_list = EmptyDict
    /\ requests = <<>>

Init ==
    /\ when_done \in BOOLEAN
    /\ tools \in {ToolsModule, NoTools}
    /\ pc = "get_thread"
    /\ Idle

(* The remote run as a client sees it now. *)
Snapshot == [status |-> rstatus, last_error |-> rlast_error, tool_calls |-> rcalls]

(* An exception leaves the coroutine that runs: the caller of              *)
(* newthread_and_run sees it only while newthread_and_run has not returned,*)
(* afterwards it ends the task asyncio.create_task started (line 236).     *)
Raise(by) ==
    /\ pc' = "raised"
    /\ raisedBy' = by
    /\ ret' = IF ret = NoRet THEN Raised ELSE ret

----------------------------------------------------------------------------
(* newthread_and_run *)

(* thread = await self.get_thread(...): threads.create (lines 210, 272) *)
GetThread ==
    /\ pc = "get_thread"
    /\ thread' = [id |-> ThreadId]
    /\ pc' = "post_message"
    /\ UNCHANGED <<invocation, service, history, ret, messages, remoteRun, run, dispatch, result,
                   hook, spins, raisedBy, reading>>

(* messages.create(thread.id, role="user", content=content) (lines 211-216) *)
PostMessage ==
    /\ pc = "post_message"
    /\ messages' = <<UserMessage("tell me a joke", Len(messages) + 1)>> \o messages
    /\ pc' = "create_run"
    /\ UNCHANGED <<invocation, service, history, ret, thread, remoteRun, run, dispatch, result,
                   hook, spins, raisedBy, reading>>

(* runs.create (line 229) or the create of runs.create_and_poll (line 239) *)
CreateRun ==
    /\ pc = "create_run"
    /\ rstatus' = "queued"
    /\ pc' = IF when_done THEN "run_created" ELSE "poll"
    /\ UNCHANGED <<invocation, service, history, ret, thread, messages, rlast_error, rcalls, rround,
                   run, dispatch, result, hook, spins, raisedBy,
                   reading>>

QueuedResponse(thread_id) ==
    [kind |-> "returned",
     response |-> Str("thread " \o thread_id \o " queued for execution"),
     status_code |-> 200, thread_id |-> thread_id]

(* the tasks awaited in place, await run_tasks_sequentially(...), and the   *)
(* queued response returned after them                                     *)
ReturnQueuedAfterAwait ==
    /\ \/ /\ pc = "run_created"
          /\ pc' = "poll"
          /\ ret' = ret
       \/ /\ pc = "done"
          /\ when_done
          /\ ret = NoRet
          /\ ret' = QueuedResponse(thread.id)
          /\ pc' = pc
    /\ UNCHANGED <<invocation, service, history, thread, messages, remoteRun, run, dispatch,
                   result, hook, spins, raisedBy, reading>>

(* lines 233-237: the three tasks are created and handed to                *)
(* asyncio.create_task, which runs nothing before the caller yields, and   *)
(* the queued response is returned.                                        *)
ReturnQueued ==
    /\ pc = "run_created"
    /\ ret' = QueuedResponse(thread.id)
    /\ pc' = "poll"
    /\ UNCHANGED <<invocation, service, history, thread, messages, remoteRun, run, dispatch,
                   result, hook, spins, raisedBy, reading>>

(* runs.poll (task1, line 233) and the poll of create_and_poll (line 239): *)
(* they come back when the run is terminal or requires action.             *)
Poll ==
    /\ pc = "poll"
    /\ rstatus \in PollStops
    /\ pc' = "retrieve"
    /\ UNCHANGED <<invocation, service, history, ret, thread, messages, remoteRun, run, dispatch,
                   result, hook, spins, raisedBy, reading>>

----------------------------------------------------------------------------
(* _process_run *)

(* run = await ...runs.retrieve(run_id, thread_id) (line 289) *)
Retrieve ==
    /\ pc = "retrieve"
    /\ run' = Snapshot
    /\ pc' = "loop"
    /\ UNCHANGED <<invocation, service, history, ret, thread, messages, remoteRun, dispatch,
                   result, hook, spins, raisedBy, reading>>

(* the loop left on every status the poll stops at *)
LoopExitsOnPollStops(status) == status \in PollStops

(* while not run.status in [...] (line 290) *)
LoopExits(status) == status \in Terminal

(* The loop is left: lines 304-311 follow. *)
LoopExit ==
    /\ pc = "loop"
    /\ LoopExits(run.status)
    /\ pc' = "finish"
    /\ UNCHANGED <<invocation, service, history, ret, thread, messages, remoteRun, run, dispatch,
                   result, hook, spins, raisedBy, reading>>

(* if run.status == 'requires_action' (line 292): _process_tool_calls      *)
(* starts with an empty tool_outputs and one coroutine per tool call       *)
(* (lines 359-362).                                                        *)
LoopDispatch ==
    /\ pc = "loop"
    /\ ~LoopExits(run.status)
    /\ run.status = "requires_action"
    /\ tool_outputs' = <<>>
    /\ callpc' = [k \in 1..Len(run.tool_calls) |-> "pending"]
    /\ behaved' = [k \in 1..Len(run.tool_calls) |-> NotYet]
    /\ pc' = "gather"
    /\ dispatches' = dispatches + 1
    /\ UNCHANGED <<invocation, service, submissions, ret, thread, messages,
                   remoteRun, run, result, hook, spins, raisedBy, reading>>

(* Any other status: the body does nothing and run is not read again, so   *)
(* the condition of line 290 is evaluated on the same run.                 *)
LoopSpin ==
    /\ pc = "loop"
    /\ ~LoopExits(run.status)
    /\ run.status # "requires_action"
    /\ spins' = IF spins < MaxSpins THEN spins + 1 ELSE spins
    /\ UNCHANGED <<invocation, service, history, pc, ret, thread, messages, remoteRun, run,
                   dispatch, result, hook, raisedBy, reading>>

----------------------------------------------------------------------------
(* _process_tool_calls and _process_tool_call: the coroutines of one batch *)
(* run interleaved under asyncio.gather (line 364).                        *)

(* gather makes a task of each coroutine in the order of the list, and the *)
(* event loop starts them in that order.                                   *)
NextToStart(cpc, k) ==
    /\ cpc[k] = "pending"
    /\ \A j \in 1..(k - 1) : cpc[j] # "pending"

(* A coroutine runs up to its first await: json.loads (line 329), the      *)
(* lookup (lines 337-342), and either the not-supported result or the      *)
(* call of the tool function (line 346).                                   *)
StartToolCall(k) ==
    LET tool_call == run.tool_calls[k] IN
    /\ pc = "gather"
    /\ NextToStart(callpc, k)
    /\ IF ~JsonLoadsOk(tool_call.arguments)
       THEN IF ExceptException(JsonDecodeError.class)
            THEN /\ tool_outputs' = AppendOutput(tool_outputs, tool_call,
                                                 ExceptResult(JsonDecodeError), TRUE)
                 /\ callpc' = [callpc EXCEPT ![k] = "done"]
                 /\ behaved' = [behaved EXCEPT ![k] =
                                  Raises(JsonDecodeError.class, JsonDecodeError.message)]
                 /\ UNCHANGED <<pc, ret, raisedBy>>
            ELSE /\ Raise("tool")
                 /\ UNCHANGED <<tool_outputs, callpc, behaved>>
       ELSE IF to_run(tools, tool_call.name) = "None"
            THEN /\ tool_outputs' = AppendOutput(tool_outputs, tool_call,
                                                 NotSupported(tool_call.name), FALSE)
                 /\ callpc' = [callpc EXCEPT ![k] = "done"]
                 /\ behaved' = [behaved EXCEPT ![k] = NotFound]
                 /\ UNCHANGED <<pc, ret, raisedBy>>
            ELSE /\ callpc' = [callpc EXCEPT ![k] = "awaiting"]
                 /\ UNCHANGED <<pc, ret, raisedBy, behaved, tool_outputs>>
    /\ UNCHANGED <<invocation, service, history, thread, messages, remoteRun, run, result, hook,
                   spins, reading>>

(* result = await to_run(arguments) comes back (line 346), or raises into  *)
(* the except clause (lines 347-349); then the append (lines 350-353).     *)
FinishToolCall(k, b) ==
    LET tool_call == run.tool_calls[k] IN
    /\ pc = "gather"
    /\ callpc[k] = "awaiting"
    /\ b \in ToolBehaviours(to_run(tools, tool_call.name))
    /\ IF b.kind = "return"
       THEN /\ tool_outputs' = AppendOutput(tool_outputs, tool_call, b.value, FALSE)
            /\ callpc' = [callpc EXCEPT ![k] = "done"]
            /\ behaved' = [behaved EXCEPT ![k] = b]
            /\ UNCHANGED <<pc, ret, raisedBy>>
       ELSE IF ExceptException(b.class)
            THEN /\ tool_outputs' = AppendOutput(tool_outputs, tool_call,
                                                 ExceptResult(b), TRUE)
                 /\ callpc' = [callpc EXCEPT ![k] = "done"]
                 /\ behaved' = [behaved EXCEPT ![k] = b]
                 /\ UNCHANGED <<pc, ret, raisedBy>>
            ELSE /\ Raise("tool")
                 /\ UNCHANGED <<tool_outputs, callpc, behaved>>
    /\ UNCHANGED <<invocation, service, history, thread, messages, remoteRun, run, result, hook,
                   spins, reading>>

(* a wait that is over with the first coroutine to finish *)
GatherAnyDone(cpc) == \E k \in DOMAIN cpc : cpc[k] = "done"

(* await asyncio.gather of the coroutines is over when each of them is;    *)
(* then return tool_outputs (lines 364-365).                               *)
GatherDone(cpc) == \A k \in DOMAIN cpc : cpc[k] = "done"

ProcessToolCallsReturns ==
    /\ pc = "gather"
    /\ GatherDone(callpc)
    /\ pc' = "submit"
    /\ UNCHANGED <<invocation, service, history, ret, thread, messages, remoteRun, run, dispatch,
                   result, hook, spins, raisedBy, reading>>

(* the tool_call ids of a list of tool outputs, in the order of the list *)
ToolCallIds(outs) == [i \in DOMAIN outs |-> outs[i].tool_call_id]

(* submit_tool_outputs_and_poll (lines 298-302), its first half: the       *)
(* remote takes the outputs of a run that requires action and resumes it.  *)
(* The list and the Run the call was made with are not read again: run is  *)
(* assigned the call's result.                                             *)
SubmitToolOutputs ==
    /\ pc = "submit"
    /\ rstatus = "requires_action"
    /\ rstatus' = "in_progress"
    /\ rcalls' = <<>>
    /\ run' = NoRun
    /\ tool_outputs' = <<>>
    /\ callpc' = <<>>
    /\ behaved' = <<>>
    /\ pc' = "submit_poll"
    /\ submissions' = submissions + 1
    /\ UNCHANGED <<invocation, service, dispatches, ret, thread, messages,
                   rlast_error, rround, result, hook, spins, raisedBy, reading>>

(* A run that no longer requires action refuses the outputs. *)
SubmitRefused ==
    /\ pc = "submit"
    /\ rstatus # "requires_action"
    /\ Raise("remote")
    /\ UNCHANGED <<invocation, service, history, thread, messages, remoteRun, run, dispatch,
                   result, hook, spins, reading>>

(* its second half: the poll, whose Run becomes run (line 298) *)
SubmitPoll ==
    /\ pc = "submit_poll"
    /\ rstatus \in PollStops
    /\ run' = Snapshot
    /\ pc' = "loop"
    /\ UNCHANGED <<invocation, service, history, ret, thread, messages, remoteRun, dispatch,
                   result, hook, spins, raisedBy, reading>>

(* What _process_run returns after the loop (lines 304-311); a function    *)
(* that falls off its end returns None.                                    *)
Response(payload, status_code, thread_id) ==
    [kind |-> "returned", response |-> payload, status_code |-> status_code,
     thread_id |-> thread_id]
ReturnedNone == [kind |-> "returned_none"]

(* the list of line 310 short of one status *)
FailedStatusesWithoutIncomplete == {"expired", "failed", "cancelled"}

(* if run.status in ['expired','failed','cancelled','incomplete'] (line 310) *)
FailedStatuses == {"expired", "failed", "cancelled", "incomplete"}

ProcessRunResult(r, data, thread_id) ==
    IF r.status = "completed"
    THEN Response(Str(getfullresponse(data, TRUE)), 200, thread_id)
    ELSE IF r.status \in FailedStatuses
         THEN Response(r.last_error, 500, thread_id)
         ELSE ReturnedNone

(* _process_run returns.  Without a hook its value is what                 *)
(* newthread_and_run returns (line 243); with one, run_tasks_sequentially  *)
(* drops it and goes on to the hook (lines 51-52).                         *)
ProcessRunReturns ==
    /\ pc = "finish"
    /\ result' = ProcessRunResult(run, messages, thread.id)
    /\ IF when_done
       THEN pc' = "when_done" /\ ret' = ret
       ELSE pc' = "done" /\ ret' = result'
    /\ UNCHANGED <<invocation, service, history, thread, messages, remoteRun, run, dispatch,
                   hook, spins, raisedBy, reading>>

----------------------------------------------------------------------------
(* run_tasks_sequentially: the third task, when_done(thread.id) (line 235) *)

WhenDone ==
    /\ pc = "when_done"
    /\ hookCalls' = hookCalls + 1
    /\ hookArg' = Str(thread.id)
    /\ \/ pc' = "done" /\ UNCHANGED <<ret, raisedBy>>
       \/ Raise("when_done")
    /\ UNCHANGED <<invocation, service, history, thread, messages, remoteRun, run, dispatch,
                   result, spins, reading>>

(* A call to the remote service fails (network, 4xx, 5xx): the openai      *)
(* client raises, and nothing between the call and the caller catches it.  *)
RemoteCallPcs ==
    {"get_thread", "post_message", "create_run", "poll", "retrieve", "submit",
     "submit_poll"}

RemoteCallFails ==
    /\ \/ pc \in RemoteCallPcs
       \/ pc = "finish" /\ run.status = "completed"
    /\ Raise("remote")
    /\ UNCHANGED <<invocation, service, history, thread, messages, remoteRun, run, dispatch,
                   result, hook, spins, reading>>

----------------------------------------------------------------------------
(* The remote service moves the run. *)

LastErrors ==
    { [type |-> "LastError", code |-> "server_error"],
      [type |-> "LastError", code |-> "rate_limit_exceeded"] }

RemoteStarts ==
    /\ rstatus = "queued"
    /\ rstatus' = "in_progress"
    /\ UNCHANGED <<invocation, service, history, pc, ret, thread, messages, rlast_error, rcalls,
                   rround, run, dispatch, result, hook, spins,
                   raisedBy, reading>>

RemoteRequiresAction ==
    /\ rstatus = "in_progress"
    /\ rround < MaxRounds
    /\ rround' = rround + 1
    /\ rcalls' \in Batches(rround + 1)
    /\ rstatus' = "requires_action"
    /\ UNCHANGED <<invocation, service, history, pc, ret, thread, messages, rlast_error,
                   run, dispatch, result, hook, spins, raisedBy,
                   reading>>

RemoteCompletes ==
    /\ rstatus = "in_progress"
    /\ \E m \in AssistantReplies(Len(messages) + 1) : messages' = <<m>> \o messages
    /\ rstatus' = "completed"
    /\ UNCHANGED <<invocation, service, history, pc, ret, thread, rlast_error, rcalls, rround,
                   run, dispatch, result, hook, spins, raisedBy,
                   reading>>

RemoteFails ==
    /\ rstatus = "in_progress"
    /\ rlast_error' \in LastErrors
    /\ rstatus' = "failed"
    /\ UNCHANGED <<invocation, service, history, pc, ret, thread, messages, rcalls, rround,
                   run, dispatch, result, hook, spins, raisedBy,
                   reading>>

RemoteIncomplete ==
    /\ rstatus = "in_progress"
    /\ rstatus' = "incomplete"
    /\ UNCHANGED <<invocation, service, history, pc, ret, thread, messages, rlast_error, rcalls,
                   rround, run, dispatch, result, hook, spins,
                   raisedBy, reading>>

RemoteExpires ==
    /\ rstatus \in {"queued", "in_progress", "requires_action"}
    /\ rstatus' = "expired"
    /\ rcalls' = <<>>
    /\ UNCHANGED <<invocation, service, history, pc, ret, thread, messages, rlast_error, rround,
                   run, dispatch, result, hook, spins, raisedBy, reading>>

(* Someone cancels the run through the remote's API. *)
RemoteCancelling ==
    /\ rstatus \in {"queued", "in_progress", "requires_action"}
    /\ rstatus' = "cancelling"
    /\ rcalls' = <<>>
    /\ UNCHANGED <<invocation, service, history, pc, ret, thread, messages, rlast_error, rround,
                   run, dispatch, result, hook, spins, raisedBy, reading>>

RemoteCancelled ==
    /\ rstatus = "cancelling"
    /\ rstatus' = "cancelled"
    /\ UNCHANGED <<invocation, service, history, pc, ret, thread, messages, rlast_error, rcalls,
                   rround, run, dispatch, result, hook, spins,
                   raisedBy, reading>>

----------------------------------------------------------------------------

ProcessRunStep ==
    \/ Retrieve
    \/ LoopExit
    \/ LoopDispatch
    \/ LoopSpin
    \/ \E k \in DOMAIN callpc : StartToolCall(k)
    \/ \E k \in DOMAIN callpc : \E b \in webscrape \cup company_research \cup google_search :
          FinishToolCall(k, b)
    \/ ProcessToolCallsReturns
    \/ SubmitToolOutputs
    \/ SubmitRefused
    \/ SubmitPoll
    \/ ProcessRunReturns

Next ==
    \/ GetThread
    \/ PostMessage
    \/ CreateRun
    \/ ReturnQueued
    \/ Poll
    \/ ProcessRunStep
    \/ WhenDone
    \/ RemoteCallFails
    \/ RemoteStarts
    \/ RemoteRequiresAction
    \/ RemoteCompletes
    \/ RemoteFails
    \/ RemoteIncomplete
    \/ RemoteExpires
    \/ RemoteCancelling
    \/ RemoteCancelled

Spec == Init /\ [][Next]_vars

----------------------------------------------------------------------------
(* getfullresponse on its own: a thread is composed message by message,    *)
(* segment by segment and piece by piece, and then read.  The remote marks *)
(* a citation in a text by a marker in brackets and lists it, with its     *)
(* place, in the annotations of the segment; brackets occur in a text only *)
(* as part of a marker.                                                    *)

MaxMessages == 2
MaxSegments == 2
MaxPieces == 2

PlainPieces == {"1"}
Markers == {"[1]", "[2]"}

Roles == {"user", "assistant"}

RECURSIVE SegmentsIn(_, _)
SegmentsIn(data, i) ==
    IF i > Len(data) THEN 0 ELSE Len(data[i].content) + SegmentsIn(data, i + 1)

(* the pieces written so far: each is one character or a marker of three *)
RECURSIVE PiecesInContent(_, _)
PiecesInContent(content, i) ==
    IF i > Len(content) THEN 0
    ELSE (IF content[i].type = "text"
          THEN Len(content[i].text.value) - 2 * Len(content[i].text.annotations)
          ELSE 0)
         + PiecesInContent(content, i + 1)

RECURSIVE PiecesIn(_, _)
PiecesIn(data, i) ==
    IF i > Len(data) THEN 0
    ELSE PiecesInContent(data[i].content, 1) + PiecesIn(data, i + 1)

ReadInit ==
    /\ when_done = FALSE
    /\ tools = NoTools
    /\ pc = "compose"
    /\ Idle

PostsMessage(role) ==
    /\ pc = "compose"
    /\ Len(messages) < MaxMessages
    /\ messages' = <<Message(role, <<>>, Len(messages) + 1)>> \o messages
    /\ UNCHANGED <<invocation, service, history, pc, ret, thread, remoteRun, run, dispatch,
                   result, hook, spins, raisedBy, reading>>

AddsSegment(segment) ==
    /\ pc = "compose"
    /\ messages # <<>>
    /\ SegmentsIn(messages, 1) < MaxSegments
    /\ messages' = [messages EXCEPT ![1].content = Append(@, segment)]
    /\ UNCHANGED <<invocation, service, history, pc, ret, thread, remoteRun, run, dispatch,
                   result, hook, spins, raisedBy, reading>>

(* The newest segment, a text, gets one more piece; a marker is listed in  *)
(* the annotations with the place it takes in the value.                   *)
WritesPiece(piece) ==
    /\ pc = "compose"
    /\ messages # <<>>
    /\ messages[1].content # <<>>
    /\ PiecesIn(messages, 1) < MaxPieces
    /\ LET n == Len(messages[1].content)
           t == messages[1].content[n]
       IN /\ t.type = "text"
          /\ messages' =
                [messages EXCEPT ![1].content[n].text =
                    [value |-> t.text.value \o piece,
                     annotations |->
                        IF piece \in Markers
                        THEN Append(t.text.annotations,
                                    Annotation(piece, Len(t.text.value),
                                               Len(t.text.value) + Len(piece)))
                        ELSE t.text.annotations]]
    /\ UNCHANGED <<invocation, service, history, pc, ret, thread, remoteRun, run, dispatch,
                   result, hook, spins, raisedBy, reading>>

(* response = await getfullresponse(thread_id, remove_annotations) *)
GetFullResponse(remove) ==
    /\ pc = "compose"
    /\ remove_annotations' = remove
    /\ response' = Str(getfullresponse(messages, remove))
    /\ pc' = "read"
    /\ UNCHANGED <<invocation, service, history, ret, thread, messages, remoteRun, run, dispatch,
                   result, hook, spins, raisedBy>>

ReadNext ==
    \/ \E role \in Roles : PostsMessage(role)
    \/ AddsSegment(ImageSegment)
    \/ AddsSegment(TextSegment("", <<>>))
    \/ \E piece \in PlainPieces \cup Markers : WritesPiece(piece)
    \/ \E remove \in BOOLEAN : GetFullResponse(remove)

SpecRead == ReadInit /\ [][ReadNext]_vars

----------------------------------------------------------------------------
(* newthread_and_run from its entry to the creation of the run (lines      *)
(* 194-243), one invocation after the other on the one Assistant_call, and *)
(* get_thread called with a thread id (demo.py line 121, twilio_api.py     *)
(* line 88).  The remote holds the assistants, the uploaded files and the  *)
(* threads.                                                                *)

MaxCalls == 2

(* str.lower() *)
UpperCase == "ABCDEFGHIJKLMNOPQRSTUVWXYZ"
LowerCase == "abcdefghijklmnopqrstuvwxyz"

LowerChar(c) ==
    IF \E i \in 1..Len(UpperCase) : SubSeq(UpperCase, i, i) = c
    THEN LET i == CHOOSE i \in 1..Len(UpperCase) : SubSeq(UpperCase, i, i) = c
         IN SubSeq(LowerCase, i, i)
    ELSE c

RECURSIVE LowerFrom(_, _)
LowerFrom(s, i) ==
    IF i > Len(s) THEN "" ELSE LowerChar(SubSeq(s, i, i)) \o LowerFrom(s, i + 1)

Lower(s) == LowerFrom(s, 1)

(* filename.split('.')[-1]: what follows the last dot, the whole name when *)
(* it has none                                                             *)
SplitLast(s) ==
    LET dots == { i \in 1..Len(s) : SubSeq(s, i, i) = "." }
    IN IF dots = {} THEN s
       ELSE LET last == CHOOSE i \in dots : \A j \in dots : j <= i
            IN SubSeq(s, last + 1, Len(s))

(* file_upload.extension (line 85) *)
extension(filename) == Lower(SplitLast(filename))

image_extensions == {"jpg", "jpeg", "png", "gif", "bmp", "tiff"}

retrieval_extensions ==
    {"c", "cs", "cpp", "doc", "docx", "html", "java", "json", "md", "pdf", "php",
     "pptx", "py", "rb", "tex", "txt", "css", "js", "sh", "ts"}

(* file_upload.vision (lines 88-90) and file_upload.retrieval (lines 92-98) *)
vision(filename) == extension(filename) \in image_extensions
retrieval(filename) == extension(filename) \in retrieval_extensions

(* a file_upload object; vision and retrieval are computed from filename,  *)
(* whatever the constructor is given for them (lines 391, 449)             *)
file_upload(file_id, filename) == [file_id |-> file_id, filename |-> filename]

(* the files the remote holds: client.files.retrieve(file_id).filename *)
RemoteFiles ==
    { file_upload("file-1", "photo.PNG"), file_upload("file-2", "paper.pdf"),
      file_upload("file-3", "data.csv"), file_upload("file-4", "archive.tar.gz"),
      file_upload("file-5", "png"), file_upload("file-6", "notes.v2.TXT") }

FileObject(file_id) == CHOOSE f \in RemoteFiles : f.file_id = file_id

(* an item of files is a file_upload object or the id of a file, a str *)
AsObject(file_id) == [type |-> "file_upload", file |-> FileObject(file_id)]
AsStr(file_id) == [type |-> "str", file_id |-> file_id]

(* the lists of files the invocations are given *)
FileLists ==
    { <<>>,
      <<AsObject("file-1"), AsObject("file-2")>>,
      <<AsStr("file-3"), AsObject("file-5")>>,
      <<AsObject("file-4"), AsStr("file-6")>> }

(* the assistants the remote holds *)
Assistants ==
    { [id |-> "asst_1", name |-> "Joker"], [id |-> "asst_2", name |-> "Research"],
      [id |-> "asst_3", name |-> "Text responder"] }

(* how an invocation names its assistant: by id, by the name of an         *)
(* assistant, or by a name that no assistant has                           *)
AssistantArgs ==
    { [assistant_id |-> "asst_2", assistant_name |-> "None"],
      [assistant_id |-> "None", assistant_name |-> "Joker"],
      [assistant_id |-> "None", assistant_name |-> "Ghost"] }

(* the metadata argument: left out, so that the parameter is bound to the  *)
(* default of line 161, or a dict of the caller                            *)
CallerMetadata == { [key |-> "topic", value |-> "sales"] }
MetadataArgs ==
    { [metadata_is |-> "default", metadata |-> EmptyDict],
      [metadata_is |-> "given", metadata |-> CallerMetadata] }

(* the dict the parameter metadata is bound to *)
MetadataOf(c, default) == IF c.metadata_is = "default" THEN default ELSE c.metadata

ThreadName(n) == "thread_" \o SubSeq("123456789", n, n)
ThreadIdsKnown == { threads[i].id : i \in DOMAIN threads }

(* the thread threads.create makes *)
NewThread(metadata) ==
    [id |-> ThreadName(Len(threads) + 1), metadata |-> metadata,
     messages |-> <<>>, runs |-> 0]

CallsInit ==
    /\ when_done \in BOOLEAN
    /\ tools = ToolsModule
    /\ pc = "idle"
    /\ Idle

NotFoundResponse(assistant_name) ==
    [kind |-> "returned",
     response |-> Str("Assistant '" \o assistant_name \o "' not found"),
     status_code |-> 404]

AfterLookup(files) == IF files = <<>> THEN "get_thread" ELSE "files"

CallOver == pc \in {"idle", "returned", "run_created", "raised"}

(* newthread_and_run is entered (line 194) *)
Invoke(a, m, files) ==
    /\ CallOver
    /\ call.n < MaxCalls
    /\ call' = [NoCall EXCEPT !.n = call.n + 1,
                              !.op = "newthread_and_run",
                              !.assistant_id = a.assistant_id,
                              !.assistant_name = a.assistant_name,
                              !.metadata_is = m.metadata_is,
                              !.metadata = m.metadata,
                              !.files = files,
                              !.threads_at_entry = threads]
    /\ ret' = NoRet
    /\ pc' = IF a.assistant_id = "None" THEN "lookup" ELSE AfterLookup(files)
    /\ UNCHANGED <<invocation, default_metadata, threads, twilio, history, thread,
                   messages, remoteRun, run, dispatch, result, hook, spins,
                   raisedBy, reading>>

(* a search that gives the first assistant when none has the name *)
get_assistant_by_name_or_first(assistant_name) ==
    IF \E a \in Assistants : a.name = assistant_name
    THEN (CHOOSE a \in Assistants : a.name = assistant_name).id
    ELSE "asst_1"

(* get_assistant_by_name (lines 111-129) *)
get_assistant_by_name(assistant_name) ==
    IF \E a \in Assistants : a.name = assistant_name
    THEN (CHOOSE a \in Assistants : a.name = assistant_name).id
    ELSE "None"

(* lines 196-198 *)
LookupAssistant ==
    /\ pc = "lookup"
    /\ LET assistant_id == get_assistant_by_name(call.assistant_name) IN
       IF assistant_id = "None"
       THEN /\ ret' = NotFoundResponse(call.assistant_name)
            /\ pc' = "returned"
            /\ call' = call
       ELSE /\ call' = [call EXCEPT !.assistant_id = assistant_id]
            /\ pc' = AfterLookup(call.files)
            /\ ret' = ret
    /\ UNCHANGED <<invocation, default_metadata, threads, twilio, history, thread,
                   messages, remoteRun, run, dispatch, result, hook, spins,
                   raisedBy, reading>>

(* an attachment with both tools, whatever the extension *)
AttachmentWithBothTools(f) ==
    [file_id |-> f.file_id, tools |-> <<"file_search", "code_interpreter">>]

(* line 209: the attachment of a file that is not an image *)
Attachment(f) ==
    [file_id |-> f.file_id,
     tools |-> <<IF retrieval(f.filename) THEN "file_search" ELSE "code_interpreter">>]

(* lines 205-209 *)
Classify(c, f) ==
    IF vision(f.filename)
    THEN [c EXCEPT !.vision_files = Append(@, f)]
    ELSE [c EXCEPT !.attachment_files = Append(@, Attachment(f))]

(* One turn of the loop of lines 202-209 on the next file; an id is        *)
(* replaced by the file_upload object of that file (lines 203-204, 449).   *)
ClassifyFile ==
    /\ pc = "files"
    /\ LET i == Len(call.vision_files) + Len(call.attachment_files) + 1
           item == call.files[i]
           f == IF item.type = "str" THEN FileObject(item.file_id) ELSE item.file
       IN /\ call' = Classify(call, f)
          /\ pc' = IF i = Len(call.files) THEN "get_thread" ELSE "files"
    /\ UNCHANGED <<invocation, default_metadata, threads, twilio, history, ret,
                   thread, messages, remoteRun, run, dispatch, result, hook,
                   spins, raisedBy, reading>>

(* if assistant_name: (line 270) *)
StoresName(c) == c.assistant_name # "None"

(* line 210: get_thread without a thread id creates a thread (lines        *)
(* 269-274); metadata["assistant_name"] = assistant_name writes into the   *)
(* dict the parameter is bound to, and then threads.create makes the       *)
(* thread or raises.                                                       *)
CreateThread ==
    /\ pc = "get_thread"
    /\ LET metadata == IF StoresName(call)
                       THEN DictSet(MetadataOf(call, default_metadata),
                                    "assistant_name", call.assistant_name)
                       ELSE MetadataOf(call, default_metadata)
           t == NewThread(metadata)
       IN /\ default_metadata' =
                IF call.metadata_is = "default" THEN metadata ELSE default_metadata
          /\ \/ /\ call' = [call EXCEPT !.metadata =
                                      IF call.metadata_is = "default" THEN @ ELSE metadata,
                                         !.thread = t.id]
                /\ threads' = Append(threads, t)
                /\ pc' = "post_message"
                /\ ret' = ret
             \/ /\ call' = [call EXCEPT !.metadata =
                                      IF call.metadata_is = "default" THEN @ ELSE metadata]
                /\ threads' = threads
                /\ pc' = "raised"
                /\ ret' = Raised
    /\ UNCHANGED <<invocation, twilio, history, thread, messages, remoteRun,
                   run, dispatch, result, hook, spins, raisedBy, reading>>

ThreadIndex(id) == CHOOSE i \in DOMAIN threads : threads[i].id = id

TextMessage(content, attachments) ==
    [role |-> "user", type |-> "text", content |-> content,
     attachments |-> attachments]

ImageMessage(file_id) ==
    [role |-> "user", type |-> "image_file", content |-> file_id,
     attachments |-> <<>>]

(* the loop of lines 217-224 passed over *)
AfterContentSkipsVision(vision_files) == "create_run"

(* for v in vision_files (line 217): entered when there is an image *)
AfterContent(vision_files) ==
    IF vision_files = <<>> THEN "create_run" ELSE "post_vision"

(* lines 211-216 *)
PostContent ==
    /\ pc = "post_message"
    /\ threads' = [threads EXCEPT ![ThreadIndex(call.thread)].messages =
                      Append(@, TextMessage("content", call.attachment_files))]
    /\ pc' = AfterContent(call.vision_files)
    /\ UNCHANGED <<invocation, default_metadata, call, twilio, history, ret,
                   thread, messages, remoteRun, run, dispatch, result, hook,
                   spins, raisedBy, reading>>

(* the image messages of this invocation that the thread holds *)
ImagesPosted(t) ==
    Cardinality({ i \in DOMAIN t.messages : t.messages[i].type = "image_file" })

(* lines 217-224: one image message for the next of vision_files *)
PostVision ==
    /\ pc = "post_vision"
    /\ LET t == threads[ThreadIndex(call.thread)]
           v == call.vision_files[ImagesPosted(t) + 1]
       IN /\ threads' = [threads EXCEPT ![ThreadIndex(call.thread)].messages =
                            Append(@, ImageMessage(v.file_id))]
          /\ pc' = IF ImagesPosted(t) + 1 = Len(call.vision_files)
                   THEN "create_run" ELSE "post_vision"
    /\ UNCHANGED <<invocation, default_metadata, call, twilio, history, ret,
                   thread, messages, remoteRun, run, dispatch, result, hook,
                   spins, raisedBy, reading>>

(* The argument when_done as line 225 finds it: None or a coroutine        *)
(* function, or a str; a str that is not empty counts as a hook.           *)
WhenDoneArgs(hook_given) ==
    IF hook_given
    THEN {"coroutine function", "tools.webscrape", "tools.markdown_to_html",
          "nomodule.run_after", "run_after"}
    ELSE {"None", ""}

WhenDoneIsStr(w) == w \notin {"None", "coroutine function"}

(* _when_done_str_to_object (lines 144-159): func is bound only inside     *)
(* if when_done; a name with a dot is split at its last dot and looked up  *)
(* in the module, a name without one in the globals of assistant.py; what  *)
(* is found must be a coroutine function.                                  *)
when_done_str_to_object(w) ==
    IF w = "" THEN "UnboundLocalError"
    ELSE LET dots == { i \in 1..Len(w) : SubSeq(w, i, i) = "." }
             last == CHOOSE i \in dots : \A j \in dots : j <= i
             module == IF dots = {} THEN "None" ELSE SubSeq(w, 1, last - 1)
             func == SplitLast(w)
             found == IF module = "None"
                      THEN func \in {"run_tasks_sequentially"}
                      ELSE module = "tools" /\ func \in ToolsModule
         IN IF found THEN "coroutine function" ELSE "ValueError"

RaisedWith(class) == [kind |-> "raised", class |-> class]

(* lines 225-242: a when_done that is a str is made a function, or the     *)
(* invocation ends with the exception of that; then the run is created,    *)
(* and with a hook the task is handed to asyncio.create_task; what follows *)
(* is the orchestration of the run.                                        *)
CreateRunOnThread ==
    /\ pc = "create_run"
    /\ \E w \in WhenDoneArgs(when_done) :
          LET f == IF WhenDoneIsStr(w) THEN when_done_str_to_object(w) ELSE w IN
          IF f \in {"ValueError", "UnboundLocalError"}
          THEN /\ call' = [call EXCEPT !.when_done = w]
               /\ ret' = RaisedWith(f)
               /\ pc' = "raised"
               /\ threads' = threads
          ELSE /\ threads' = [threads EXCEPT ![ThreadIndex(call.thread)].runs = @ + 1]
               /\ call' = [call EXCEPT !.task = when_done, !.when_done = w]
               /\ pc' = "run_created"
               /\ ret' = ret
    /\ UNCHANGED <<invocation, default_metadata, twilio, history, thread,
                   messages, remoteRun, run, dispatch, result, hook, spins,
                   raisedBy, reading>>

(* a call to the remote fails and the invocation ends with its exception *)
CallFails ==
    /\ pc \in {"lookup", "post_message", "post_vision", "create_run"}
    /\ pc' = "raised"
    /\ ret' = Raised
    /\ UNCHANGED <<invocation, calls, twilio, history, thread, messages,
                   remoteRun, run, dispatch, result, hook, spins, raisedBy,
                   reading>>

(* the thread ids get_thread is called with: of a thread the remote holds, *)
(* or of none                                                              *)
ThreadIdArgs == {"thread_1", "thread_404"}

ThreadResult(t) == [kind |-> "returned", thread |-> t]

(* get_thread(thread_id=...) (lines 260-275): threads.retrieve raises for  *)
(* an id the remote does not know, the except clause leaves thread None,   *)
(* and a thread is created with the default metadata of line 247.          *)
GetThreadById(thread_id) ==
    /\ CallOver
    /\ call.n < MaxCalls
    /\ call' = [NoCall EXCEPT !.n = call.n + 1, !.op = "get_thread",
                              !.thread_id = thread_id,
                              !.threads_at_entry = threads]
    /\ IF thread_id \in ThreadIdsKnown
       THEN /\ ret' = ThreadResult(threads[ThreadIndex(thread_id)])
            /\ threads' = threads
       ELSE /\ ret' = ThreadResult(NewThread(EmptyDict))
            /\ threads' = Append(threads, NewThread(EmptyDict))
    /\ pc' = "returned"
    /\ UNCHANGED <<invocation, default_metadata, twilio, history, thread,
                   messages, remoteRun, run, dispatch, result, hook, spins,
                   raisedBy, reading>>

CallsNext ==
    \/ \E a \in AssistantArgs : \E m \in MetadataArgs : \E files \in FileLists :
          Invoke(a, m, files)
    \/ LookupAssistant
    \/ ClassifyFile
    \/ CreateThread
    \/ PostContent
    \/ PostVision
    \/ CreateRunOnThread
    \/ CallFails
    \/ \E thread_id \in ThreadIdArgs : GetThreadById(thread_id)

SpecCalls == CallsInit /\ [][CallsNext]_vars

----------------------------------------------------------------------------
(* twilio_api.py: the /sms route.  Each request is a coroutine of its own  *)
(* on the one event loop; it gives way to the others at its awaits only.   *)
(* The task it hands to asyncio.create_task is newthread_and_run with the  *)
(* assistant "Text responder".                                             *)

MaxRequests == 2

PhoneNumbers == {"+15550001", "+15550002"}
TwilioNumber == "+15559999"

(* no SMS sent *)
NoReply == [to |-> "None", from_ |-> "None", body |-> "None"]

SmsRequest(from_number) ==
    [pc |-> "check", from_number |-> from_number, to_number |-> TwilioNumber,
     thread |-> "None", thread_id |-> "None", run_thread |-> "None",
     reply |-> NoReply]

SmsInit ==
    /\ when_done = TRUE
    /\ tools = ToolsModule
    /\ pc = "serving"
    /\ Idle

(* a request arrives and its form is read (lines 70-73) *)
SmsArrives(from_number) ==
    /\ Len(requests) < MaxRequests
    /\ requests' = Append(requests, SmsRequest(from_number))
    /\ UNCHANGED <<invocation, calls, nummer_thread_list, history, pc, ret, thread,
                   messages, remoteRun, run, dispatch, result, hook, spins,
                   raisedBy, reading>>

(* a check that finds no number *)
NeverInList(list, from_number) == TRUE

(* if from_number not in nummer_thread_list (line 74) *)
NotInList(list, from_number) == from_number \notin DictKeys(list)

(* Line 74 and, for a number that is in the dict, lines 77-82 without an   *)
(* await: the lookup, create_task and the response.  For a number that is  *)
(* not, the request waits for get_thread (line 75).                        *)
SmsCheck(r) ==
    /\ requests[r].pc = "check"
    /\ IF NotInList(nummer_thread_list, requests[r].from_number)
       THEN requests' = [requests EXCEPT ![r].pc = "get_thread"]
       ELSE requests' = [requests EXCEPT
                            ![r].pc = "task",
                            ![r].thread_id =
                                DictGet(nummer_thread_list, requests[r].from_number)]
    /\ UNCHANGED <<invocation, calls, nummer_thread_list, history, pc, ret, thread,
                   messages, remoteRun, run, dispatch, result, hook, spins,
                   raisedBy, reading>>

(* get_thread() of line 75 makes a thread at the remote (lines 269-274) *)
SmsThreadCreated(r) ==
    /\ requests[r].pc = "get_thread"
    /\ threads' = Append(threads, NewThread(EmptyDict))
    /\ requests' = [requests EXCEPT ![r].pc = "insert",
                                    ![r].thread = NewThread(EmptyDict).id]
    /\ UNCHANGED <<invocation, default_metadata, call, nummer_thread_list, history,
                   pc, ret, thread, messages, remoteRun, run, dispatch, result,
                   hook, spins, raisedBy, reading>>

(* get_thread() raises: the request ends with the exception *)
SmsThreadFails(r) ==
    /\ requests[r].pc = "get_thread"
    /\ requests' = [requests EXCEPT ![r].pc = "failed"]
    /\ UNCHANGED <<invocation, calls, nummer_thread_list, history, pc, ret, thread,
                   messages, remoteRun, run, dispatch, result, hook, spins,
                   raisedBy, reading>>

(* the request resumes after line 75: lines 76-82 without an await *)
SmsInsert(r) ==
    /\ requests[r].pc = "insert"
    /\ nummer_thread_list' =
          DictSet(nummer_thread_list, requests[r].from_number, requests[r].thread)
    /\ requests' = [requests EXCEPT
                       ![r].pc = "task",
                       ![r].thread_id =
                           DictGet(nummer_thread_list', requests[r].from_number)]
    /\ UNCHANGED <<invocation, calls, history, pc, ret, thread, messages,
                   remoteRun, run, dispatch, result, hook, spins, raisedBy,
                   reading>>

(* the metadata of line 80, with the name get_thread adds (line 271) *)
SmsMetadata(from_number, to_number) ==
    DictSet(DictSet(DictSet(EmptyDict, "from", from_number), "to", to_number),
            "assistant_name", "Text responder")

(* The task: newthread_and_run finds the assistant and calls get_thread    *)
(* without a thread id (line 210 of assistant.py), which makes a thread.   *)
TaskCreatesThread(r) ==
    /\ requests[r].pc = "task"
    /\ get_assistant_by_name("Text responder") # "None"
    /\ threads' = Append(threads,
                         NewThread(SmsMetadata(requests[r].from_number,
                                               requests[r].to_number)))
    /\ requests' = [requests EXCEPT ![r].pc = "post",
                                    ![r].run_thread = ThreadName(Len(threads) + 1)]
    /\ UNCHANGED <<invocation, default_metadata, call, nummer_thread_list, history,
                   pc, ret, thread, messages, remoteRun, run, dispatch, result,
                   hook, spins, raisedBy, reading>>

(* The task posts the body of the SMS (lines 211-216 of assistant.py). *)
TaskPostsMessage(r) ==
    /\ requests[r].pc = "post"
    /\ threads' = [threads EXCEPT ![ThreadIndex(requests[r].run_thread)].messages =
                      Append(@, TextMessage("Body", <<>>))]
    /\ requests' = [requests EXCEPT ![r].pc = "posted"]
    /\ UNCHANGED <<invocation, default_metadata, call, nummer_thread_list, history,
                   pc, ret, thread, messages, remoteRun, run, dispatch, result,
                   hook, spins, raisedBy, reading>>

(* send_sms (lines 95-102): client.messages.create(to=, from_=, body=) *)
send_sms(to_number, message, from_number) ==
    [to |-> to_number, from_ |-> from_number, body |-> message]

(* The hook of the task, run_after(thread_id) (lines 84-93), when the run  *)
(* is over: it reads 'from' and 'to' in the metadata of the thread of the  *)
(* run and sends the text of the assistant with send_sms.                  *)
RunAfter(r) ==
    /\ requests[r].pc = "posted"
    /\ LET metadata == threads[ThreadIndex(requests[r].run_thread)].metadata
           from_number == DictGet(metadata, "from")
           to_number == DictGet(metadata, "to")
       IN requests' = [requests EXCEPT
                          ![r].pc = "replied",
                          ![r].reply = send_sms(to_number, "response", from_number)]
    /\ UNCHANGED <<invocation, calls, nummer_thread_list, history, pc, ret, thread,
                   messages, remoteRun, run, dispatch, result, hook, spins,
                   raisedBy, reading>>

SmsNext ==
    \/ \E from_number \in PhoneNumbers : SmsArrives(from_number)
    \/ \E r \in DOMAIN requests : SmsCheck(r)
    \/ \E r \in DOMAIN requests : SmsThreadCreated(r)
    \/ \E r \in DOMAIN requests : SmsThreadFails(r)
    \/ \E r \in DOMAIN requests : SmsInsert(r)
    \/ \E r \in DOMAIN requests : TaskCreatesThread(r)
    \/ \E r \in DOMAIN requests : TaskPostsMessage(r)
    \/ \E r \in DOMAIN requests : RunAfter(r)

SpecSms == SmsInit /\ [][SmsNext]_vars

----------------------------------------------------------------------------
(* Properties *)

(* the places of tool_outputs that answer the tool call with this id *)
OutputsFor(id) == { i \in 1..Len(tool_outputs) : tool_outputs[i].tool_call_id = id }

BatchReturned == pc = "submit"

(* the task asyncio.create_task started has come to its end *)
TaskEnded == when_done /\ ret = QueuedResponse(ThreadId) /\ pc \in {"done", "raised"}

(* C1: when _process_tool_calls returns, whatever the interleaving of the  *)
(* batch's coroutines and whichever of them failed, the list holds exactly *)
(* one output per tool call of the batch: as many outputs as calls, and    *)
(* each call's id in exactly one of them.                                  *)
C1_OneOutputPerToolCall ==
    BatchReturned =>
        /\ Len(tool_outputs) = Len(run.tool_calls)
        /\ \A k \in 1..Len(run.tool_calls) :
              Cardinality(OutputsFor(run.tool_calls[k].id)) = 1

(* a batch of two or more calls has returned, one of its calls raised, and *)
(* the outputs are not in the order of the calls                           *)
C1_Witness ==
    /\ BatchReturned
    /\ Len(run.tool_calls) >= 2
    /\ \E k \in DOMAIN behaved : behaved[k].kind = "raise"
    /\ tool_outputs[1].tool_call_id # run.tool_calls[1].id

(* C2: with a completion hook, the hook is invoked exactly once with the   *)
(* thread id, only after the run is terminal, whatever the run's outcome   *)
(* and also when a remote call of the background task fails; and a failure *)
(* of the hook never reaches the caller of newthread_and_run.              *)
C2_HookExactlyOnceAfterTerminal ==
    when_done =>
        /\ hookCalls <= 1
        /\ hookCalls = 1 => (rstatus \in Terminal /\ hookArg = Str(ThreadId))
        /\ TaskEnded => hookCalls = 1
        /\ raisedBy = "when_done" => ret = QueuedResponse(ThreadId)

(* C3: every iteration of the loop of _process_run, on whatever            *)
(* non-terminal status run holds (queued, in_progress, cancelling or       *)
(* requires_action), goes on to dispatch the run's tool calls: none leaves *)
(* the loop where it was.                                                  *)
C3_EveryIterationProgresses ==
    [][ ( /\ pc = "loop"
          /\ run.status \in NonTerminal
          /\ <<pc, run, spins>>' # <<pc, run, spins>> )
        => pc' = "gather" ]_vars

(* C4: with a completion hook, newthread_and_run returns the queued        *)
(* response with the thread id as soon as the run is created: it is ready  *)
(* to return whatever the run's status, and when it returns the background *)
(* task has polled nothing, dispatched nothing and invoked no hook.        *)
C4_ReturnsQueuedBeforeTheTaskRuns ==
    /\ [](pc = "run_created" => ENABLED ReturnQueued)
    /\ [][ (when_done /\ ret = NoRet /\ ret' # NoRet /\ ret' # Raised)
           => /\ ret' = QueuedResponse(ThreadId)
              /\ pc' = "poll"
              /\ run' = NoRun
              /\ result' = NoResult
              /\ tool_outputs' = <<>>
              /\ hookCalls' = 0 ]_vars

(* the queued response is returned while the run is still queued *)
C4_Witness ==
    /\ when_done
    /\ ret = QueuedResponse(ThreadId)
    /\ rstatus = "queued"
    /\ rround = 0
    /\ hookCalls = 0

(* the text of the assistant's reply, the newest message of the thread *)
ReplyText ==
    IF messages[1].content[1].text.annotations = <<>> THEN "a joke" ELSE "see ."

(* C5: without a completion hook, newthread_and_run returns only when the  *)
(* run is terminal, and what it returns is the run's final result: 200     *)
(* with the assistant's text for a completed run, 500 with the remote's    *)
(* error detail otherwise, and the thread id.                              *)
C5_BlocksUntilTerminalAndReturnsResult ==
    (~when_done /\ ret # NoRet /\ ret # Raised) =>
        /\ rstatus \in Terminal
        /\ ret.kind = "returned"
        /\ ret.thread_id = ThreadId
        /\ rstatus = "completed" =>
              (ret.status_code = 200 /\ ret.response = Str(ReplyText))
        /\ rstatus # "completed" =>
              (ret.status_code = 500 /\ ret.response = rlast_error)

(* a call without hook has returned the text of a run that went through a *)
(* round of tool calls                                                     *)
C5_Witness ==
    /\ ~when_done
    /\ ret.kind = "returned"
    /\ ret.status_code = 200
    /\ rround >= 1

(* C6: a tool call whose function name the tools table does not hold (or   *)
(* with no tools table) gets exactly the output "Function <name> not       *)
(* supported" under its id, nothing is raised, and the other calls of the  *)
(* batch have their own outputs.                                           *)
C6_UnknownFunctionNotSupported ==
    /\ raisedBy # "tool"
    /\ BatchReturned =>
          \A k \in 1..Len(run.tool_calls) :
              LET tool_call == run.tool_calls[k] IN
              /\ Cardinality(OutputsFor(tool_call.id)) = 1
              /\ tool_call.name \notin tools =>
                    \A i \in OutputsFor(tool_call.id) :
                        tool_outputs[i].output =
                            Str("Function " \o tool_call.name \o " not supported")

(* C7: when a resolved tool function raises, its call's output is the      *)
(* stringified error, nothing propagates out of _process_tool_calls, and   *)
(* every other call of the batch still finishes and has its own output.    *)
C7_RaisingToolCapturedAsData ==
    /\ raisedBy # "tool"
    /\ \A k \in DOMAIN behaved :
          behaved[k].kind = "raise" =>
              /\ callpc[k] = "done"
              /\ \E i \in OutputsFor(run.tool_calls[k].id) :
                    tool_outputs[i].output = Str(behaved[k].message)
    /\ BatchReturned =>
          \A k \in DOMAIN behaved :
              /\ callpc[k] = "done"
              /\ OutputsFor(run.tool_calls[k].id) # {}
              /\ behaved[k].kind = "return" =>
                    \E i \in OutputsFor(run.tool_calls[k].id) :
                        tool_outputs[i].output = behaved[k].value

(* a batch has returned in which a resolved tool function raised and a     *)
(* sibling that finished after it returned its value                       *)
C7_Witness ==
    /\ BatchReturned
    /\ \E k, j \in DOMAIN behaved :
          /\ behaved[k].kind = "raise"
          /\ behaved[k].class = "ValidationError"
          /\ behaved[j].kind = "return"
          /\ \E i \in OutputsFor(run.tool_calls[k].id) :
                \E h \in OutputsFor(run.tool_calls[j].id) : i < h

(* C8: every tool output handed to submit_tool_outputs_and_poll has the id *)
(* of a call of the batch and a string as its output, whatever the tool    *)
(* function returned.                                                      *)
C8_SubmittedOutputsAreStrings ==
    BatchReturned =>
        \A i \in 1..Len(tool_outputs) :
            /\ \E k \in 1..Len(run.tool_calls) :
                  tool_outputs[i].tool_call_id = run.tool_calls[k].id
            /\ IsStr(tool_outputs[i].output)

InAnnotation(annotations, p) ==
    \E a \in DOMAIN annotations :
        annotations[a].start_index <= p /\ p < annotations[a].end_index

RECURSIVE OutsideAnnotations(_, _, _)
OutsideAnnotations(value, annotations, p) ==
    IF p >= Len(value) THEN ""
    ELSE (IF InAnnotation(annotations, p) THEN "" ELSE SubSeq(value, p + 1, p + 1))
         \o OutsideAnnotations(value, annotations, p + 1)

RECURSIVE TextsOf(_, _, _)
TextsOf(content, remove, i) ==
    IF i > Len(content) THEN ""
    ELSE (IF content[i].type = "text"
          THEN IF remove
               THEN OutsideAnnotations(content[i].text.value,
                                       content[i].text.annotations, 0)
               ELSE content[i].text.value
          ELSE "")
         \o TextsOf(content, remove, i + 1)

(* the assistant's texts by created_at, from the oldest on *)
RECURSIVE AssistantTextsFrom(_, _, _)
AssistantTextsFrom(data, remove, created_at) ==
    IF created_at > Len(data) THEN ""
    ELSE LET m == CHOOSE x \in { data[i] : i \in DOMAIN data } :
                      x.created_at = created_at
         IN (IF m.role = "assistant" THEN TextsOf(m.content, remove, 1) ELSE "")
            \o AssistantTextsFrom(data, remove, created_at + 1)

RoundOf(id) == id[1]

(* the ids in a list of ids *)
IdsIn(ids) == { ids[i] : i \in DOMAIN ids }

(* C17: the rounds of tool calls are strictly ordered.  What is submitted  *)
(* is one batch per round, holding an output for each call of that round   *)
(* and of no other; it is submitted when every call of the round has       *)
(* finished; and a call of round N+1 starts only when the N rounds before  *)
(* it have been submitted.                                                 *)
C17_RoundsStrictlyOrdered ==
    /\ [](submissions <= rround /\ rround <= submissions + 1)
    /\ [][ submissions' # submissions =>
              /\ submissions' = submissions + 1
              /\ Len(tool_outputs) = Len(rcalls)
              /\ IdsIn(ToolCallIds(tool_outputs)) = { rcalls[k].id : k \in DOMAIN rcalls }
              /\ \A id \in IdsIn(ToolCallIds(tool_outputs)) : RoundOf(id) = submissions'
              /\ \A k \in DOMAIN callpc : callpc[k] = "done" ]_vars
    /\ [][ \A k \in DOMAIN callpc :
              (callpc[k] = "pending" /\ k \in DOMAIN callpc' /\ callpc'[k] # "pending")
                  => RoundOf(run.tool_calls[k].id) = submissions + 1 ]_vars

(* the first round has been submitted and the second is about to be, with *)
(* two outputs that came in another order than the calls                   *)
C17_Witness ==
    /\ submissions = 1
    /\ pc = "submit"
    /\ Len(tool_outputs) = 2
    /\ tool_outputs[1].tool_call_id = <<2, 2>>

(* C19: a run that never requires action has no tool calls dispatched and  *)
(* no outputs submitted: the loop of _process_run finds it terminal, and   *)
(* _process_run returns the completed or the failed result.                *)
C19_ZeroRoundsWithoutDispatch ==
    rround = 0 =>
        /\ dispatches = 0
        /\ submissions = 0
        /\ pc \notin {"gather", "submit", "submit_poll"}
        /\ pc = "loop" => run.status \in Terminal
        /\ result # NoResult =>
              /\ result.kind = "returned"
              /\ result.status_code = (IF rstatus = "completed" THEN 200 ELSE 500)

(* _process_run has returned the text of a run without tool calls *)
C19_Witness ==
    /\ rround = 0
    /\ dispatches = 0
    /\ result # NoResult
    /\ result.status_code = 200

(* the invocation of newthread_and_run under way has made its thread *)
HasThread == call.op = "newthread_and_run" /\ call.thread # "None"
CallThread == threads[ThreadIndex(call.thread)]

(* the file an item of files stands for *)
FileOf(item) == IF item.type = "str" THEN FileObject(item.file_id) ELSE item.file

(* how the thread of the invocation holds a file *)
ImagesOf(t, f) ==
    { i \in DOMAIN t.messages :
        t.messages[i].type = "image_file" /\ t.messages[i].content = f.file_id }
AttachmentsOf(t, f) ==
    UNION { { <<i, j>> : j \in { k \in DOMAIN t.messages[i].attachments :
                                    t.messages[i].attachments[k].file_id = f.file_id } }
            : i \in DOMAIN t.messages }
ToolsOf(t, f) ==
    UNION { { t.messages[p[1]].attachments[p[2]].tools[k] :
                k \in DOMAIN t.messages[p[1]].attachments[p[2]].tools }
            : p \in AttachmentsOf(t, f) }

ModeOfExtension(ext) ==
    IF ext \in {"jpg", "jpeg", "png", "gif", "bmp", "tiff"} THEN "vision"
    ELSE IF ext \in retrieval_extensions THEN "retrieval"
    ELSE "code_interpreter"

C12_NonImageFilesHaveBothTools ==
    (HasThread /\ pc = "run_created") =>
        \A i \in DOMAIN call.files :
            LET f == FileOf(call.files[i]) IN
            ~vision(f.filename) =>
                {"file_search", "code_interpreter"} \subseteq ToolsOf(CallThread, f)

(* C13: an invocation by a name that no assistant has returns the 404      *)
(* result once the search is over, and the remote's threads, with their    *)
(* messages and runs, are as they were when it was entered; no task is     *)
(* scheduled.                                                              *)
C13_UnknownAssistant404 ==
    ( /\ call.op = "newthread_and_run"
      /\ call.assistant_name # "None"
      /\ ~ \E a \in Assistants : a.name = call.assistant_name
      /\ pc \notin {"lookup", "raised"} ) =>
        /\ pc = "returned"
        /\ ret.kind = "returned"
        /\ ret.status_code = 404
        /\ ret.response = Str("Assistant 'Ghost' not found")
        /\ threads = call.threads_at_entry
        /\ call.thread = "None"
        /\ call.task = FALSE

(* a second invocation, after one that made a thread, has returned 404 *)
C13_Witness ==
    /\ call.op = "newthread_and_run"
    /\ call.assistant_name = "Ghost"
    /\ call.files # <<>>
    /\ pc = "returned"
    /\ ret.status_code = 404
    /\ Len(threads) = 1

(* C14: get_thread with an id the remote does not know gives a NotFound    *)
(* outcome, and the remote has no thread it did not have before.           *)
C14_UnknownThreadIsNotFound ==
    ( /\ call.op = "get_thread"
      /\ pc = "returned"
      /\ \A i \in DOMAIN call.threads_at_entry :
            call.threads_at_entry[i].id # call.thread_id ) =>
        /\ ret.kind # "returned"
        /\ threads = call.threads_at_entry

(* the name of the assistant with an id *)
NameOf(assistant_id) == (CHOOSE a \in Assistants : a.id = assistant_id).name

(* C15: the metadata of the thread an invocation created has the key       *)
(* assistant_name, with the name of the assistant the invocation runs,     *)
(* whether it was given by name or by id.                                  *)
C15_ThreadMetadataNamesAssistant ==
    HasThread =>
        /\ "assistant_name" \in DictKeys(CallThread.metadata)
        /\ \A item \in CallThread.metadata :
              item.key = "assistant_name" => item.value = NameOf(call.assistant_id)

(* C20: the metadata of the thread of an invocation that passes no         *)
(* metadata holds nothing but what this invocation put there: at most its  *)
(* own assistant_name.                                                     *)
C20_DefaultMetadataCarriesNothingOver ==
    (HasThread /\ call.metadata_is = "default") =>
        \A item \in CallThread.metadata :
            /\ item.key = "assistant_name"
            /\ item.value = call.assistant_name

(* the requests from a number that have put a thread into the dict *)
Inserted(from_number) ==
    { r \in DOMAIN requests :
        /\ requests[r].from_number = from_number
        /\ requests[r].thread # "None"
        /\ requests[r].pc \notin {"insert", "failed"} }

(* C16: a request makes a thread for its number only when it found the     *)
(* number missing at its check, and every request that did makes a thread  *)
(* of its own; so two requests of one number that both passed the check    *)
(* leave two threads, and the dict holds for the number the id of one of   *)
(* them.                                                                   *)
C16_RacingRequestsDuplicateThreads ==
    /\ [](\A from_number \in PhoneNumbers :
            /\ \A r, q \in Inserted(from_number) :
                  r # q => requests[r].thread # requests[q].thread
            /\ \A r \in Inserted(from_number) : requests[r].thread \in ThreadIdsKnown
            /\ Inserted(from_number) # {} =>
                  /\ from_number \in DictKeys(nummer_thread_list)
                  /\ \E r \in Inserted(from_number) :
                        DictGet(nummer_thread_list, from_number) = requests[r].thread)
    /\ [][ \A r \in DOMAIN requests :
              (requests[r].pc = "check" /\ requests'[r].pc = "get_thread")
                  => requests[r].from_number \notin DictKeys(nummer_thread_list) ]_vars

(* two requests of one number have both made a thread and put it into the  *)
(* dict, which holds the second one's: no entry refers to the first        *)
C16_Witness ==
    /\ Len(requests) >= 2
    /\ requests[1].from_number = requests[2].from_number
    /\ {1, 2} \subseteq Inserted(requests[1].from_number)
    /\ requests[1].thread # requests[2].thread
    /\ DictGet(nummer_thread_list, requests[1].from_number) = requests[2].thread
    /\ \A item \in nummer_thread_list : item.value # requests[1].thread

(* C18: the message of every /sms request is posted to the thread the dict *)
(* holds for its number, so all the messages of a number are in one        *)
(* thread.                                                                 *)
C18_SmsPostedToMappedThread ==
    \A r \in DOMAIN requests :
        requests[r].pc = "posted" =>
            /\ requests[r].run_thread =
                  DictGet(nummer_thread_list, requests[r].from_number)
            /\ \A q \in DOMAIN requests :
                  (requests[q].pc = "posted"
                   /\ requests[q].from_number = requests[r].from_number)
                      => requests[q].run_thread = requests[r].run_thread

(* the messages of a thread that are image messages *)
ImageMessagesOf(t) ==
    { i \in DOMAIN t.messages : t.messages[i].type = "image_file" }

(* C21: the run of an invocation is created on its thread when the thread  *)
(* holds the content message, posted first, and one image message for each *)
(* of vision_files, and the messages of a thread that has a run stay as    *)
(* they are.                                                               *)
C21_RunCreatedAfterAllMessages ==
    /\ [](\A i \in DOMAIN threads :
            threads[i].runs >= 1 =>
                /\ threads[i].messages # <<>>
                /\ threads[i].messages[1].type = "text"
                /\ Len(threads[i].messages) = 1 + Cardinality(ImageMessagesOf(threads[i])))
    /\ []((HasThread /\ CallThread.runs >= 1) =>
            /\ Cardinality(ImageMessagesOf(CallThread)) = Len(call.vision_files)
            /\ \A k \in DOMAIN call.vision_files :
                  ImagesOf(CallThread, call.vision_files[k]) # {})
    /\ [][ \A i \in DOMAIN threads :
              /\ threads[i].runs >= 1 => threads'[i].messages = threads[i].messages
              /\ threads'[i].runs > threads[i].runs =>
                    /\ pc = "create_run"
                    /\ call.thread = threads[i].id
                    /\ Len(threads[i].messages) = 1 + Len(call.vision_files) ]_vars

(* the second invocation has created its run on a thread that holds the    *)
(* content message and an image message                                    *)
C21_Witness ==
    /\ HasThread
    /\ call.n = 2
    /\ CallThread.runs = 1
    /\ Len(call.vision_files) = 1
    /\ Len(CallThread.messages) = 2
    /\ CallThread.messages[2].type = "image_file"

(* C22: an invocation whose when_done is a str that gives no coroutine    *)
(* function ends with ValueError, and the remote's threads, with their     *)
(* messages and runs, are as they were when it was entered; no task is     *)
(* scheduled.                                                              *)
C22_BadHookStringChangesNothing ==
    ( /\ call.op = "newthread_and_run"
      /\ WhenDoneIsStr(call.when_done)
      /\ when_done_str_to_object(call.when_done) # "coroutine function" ) =>
        /\ ret = RaisedWith("ValueError")
        /\ pc = "raised"
        /\ threads = call.threads_at_entry
        /\ call.task = FALSE

(* C23: the reply run_after sends for an SMS goes to the number the SMS   *)
(* came from and is sent from the number the SMS was addressed to.         *)
C23_ReplyGoesBackToSender ==
    \A r \in DOMAIN requests :
        requests[r].pc = "replied" =>
            /\ requests[r].reply.to = requests[r].from_number
            /\ requests[r].reply.from_ = requests[r].to_number

====
